---- MODULE Spec2Model ----
(***************************************************************************)
(* Model of llama/model.py: the decoder stack whose attention layer runs   *)
(* its q/k/v projections and its rotary rotation on CKKS tensors, and the  *)
(* per-layer key/value cache.                                              *)
(*                                                                         *)
(* Tensors are records [enc, shape, raw]: raw is the row-major buffer,     *)
(* shape the dimensions, enc says whether the buffer is a CKKS ciphertext. *)
(* Real numbers are modelled by integers.  nn.Linear and matmul are exact  *)
(* integer products reduced modulo Modulus; the rotary table holds unit    *)
(* complex numbers at multiples of a quarter turn, so that the rotation    *)
(* arithmetic is exact.  The nonlinear scalar maps (softmax weight, rsqrt,  *)
(* silu) are replaced by integer functions with the same dependencies.     *)
(***************************************************************************)
EXTENDS Integers, Sequences, FiniteSets, TLC

\* ---------------------------------------------------------------- ModelArgs
n_heads == 2
head_dim == 2
dim == n_heads * head_dim
n_layers == 2
vocab_size == 2
multiple_of == 2
max_batch_size == 2
max_seq_len == 4

\* the batch size of every call: tokens has shape (1, seqlen)
bsz == 1

\* ------------------------------------------------------------------- bounds
MaxCalls == 2
MaxStartPos == 5
MaxTokens == 3
Modulus == 5
RotSeqLen == 2
RotHeads == 2
RotPairs == 2
RotHeadDim == 2 * RotPairs

\* float("-inf")
NegInf == -1000000

\* ------------------------------------------------------------------ helpers
Min(a, b) == IF a < b THEN a ELSE b
Max(a, b) == IF a > b THEN a ELSE b

RECURSIVE SumSeq(_)
SumSeq(s) == IF s = <<>> THEN 0 ELSE Head(s) + SumSeq(Tail(s))

RECURSIVE Prod(_)
Prod(s) == IF s = <<>> THEN 1 ELSE Head(s) * Prod(Tail(s))

RECURSIVE Concat(_)
Concat(ss) == IF ss = <<>> THEN <<>> ELSE Head(ss) \o Concat(Tail(ss))

Front(s) == SubSeq(s, 1, Len(s) - 1)
Last(s) == s[Len(s)]

\* finite-precision integer stand-in for a float32 value
Wrap(n) == n % Modulus

\* s[a:b] for 0 <= a <= b: Python clamps both ends to the length
PySlice(s, a, b) == SubSeq(s, Min(a, Len(s)) + 1, Min(b, Len(s)))

\* number of indices selected by [a:b] on an axis of length n
SliceLen(a, b, n) == Max(0, Min(b, n) - Min(a, n))

\* broadcasting of two axis lengths
Broadcastable(a, b) == a = b \/ a = 1 \/ b = 1

Plain(shape, raw) == [enc |-> FALSE, shape |-> shape, raw |-> raw]

\* ---------------------------------------------------------- encryption path
ckks_tensor(t) == [enc |-> TRUE, shape |-> t.shape, raw |-> t.raw]

\* tensor.decrypt(): a PlainTensor carrying the shape and the flat buffer
decrypt(c) == [shape |-> c.shape, raw |-> c.raw]

plainToTorch(plain) ==
    Plain(plain.shape, SubSeq(plain.raw, 1, Prod(plain.shape)))

\* x.squeeze(): drop every axis of length 1
squeeze(t) == [t EXCEPT !.shape = SelectSeq(t.shape, LAMBDA d : d # 1)]

ReshapeOk(t, shape) == Prod(shape) = Len(t.raw)
reshape(t, shape) == [t EXCEPT !.shape = shape]

\* nn.Linear(in, out, bias=False) applied on the last axis: y = x W^T
Linear(W, t) ==
    LET din == Last(t.shape)
        dout == Len(W)
        rows == Len(t.raw) \div din
        Row(r) == SubSeq(t.raw, (r - 1) * din + 1, r * din)
        Out(r) == [o \in 1..dout |->
                     Wrap(SumSeq([i \in 1..din |-> W[o][i] * Row(r)[i]]))]
    IN  Plain(Front(t.shape) \o <<dout>>, Concat([r \in 1..rows |-> Out(r)]))

LinearOk(W, t) ==
    /\ ~t.enc
    /\ Len(t.shape) >= 1
    /\ Last(t.shape) = Len(W[1])

\* the bridge without the re-encryption of its result
encryptedLinearTransform_plain(linear, tensor) ==
    Linear(linear, plainToTorch(decrypt(tensor)))

encryptedLinearTransform(linear, tensor) ==
    ckks_tensor(Linear(linear, plainToTorch(decrypt(tensor))))

\* ------------------------------------------------------------ rotary table
\* torch.polar(1, angle) with the angle counted in quarter turns
Polar(q) ==
    CASE q % 4 = 0 -> <<1, 0>>
      [] q % 4 = 1 -> <<0, 1>>
      [] q % 4 = 2 -> <<-1, 0>>
      [] OTHER     -> <<0, -1>>

\* row p+1 is position p; entry k+1 is frequency index k
precompute_freqs_cis(d, end) ==
    [p1 \in 1..end |-> [k1 \in 1..(d \div 2) |-> Polar((p1 - 1) * k1)]]

\* torch.cat((a, b), dim=-1).flatten(1) of the parts of freqs_cis, with
\* sa, sb the signs of the two copies and part the component (1 re, 2 im)
CatFlat(fc, part, sa, sb) ==
    Concat([p \in 1..Len(fc) |->
              Concat([k \in 1..Len(fc[p]) |->
                        <<sa * fc[p][k][part], sb * fc[p][k][part]>>])])

\* .view(seqlen, 1, -1)
ViewOk(flat, seqlen) == Len(flat) % seqlen = 0
View(flat, seqlen) == Plain(<<seqlen, 1, Len(flat) \div seqlen>>, flat)

\* x.reshape([seqlen, H, hd//2, 2])[:, :, :, sel].reshape([seqlen, H, hd])
\* where sel lists the offsets taken inside each pair
PairIndex(x, sel) ==
    [x EXCEPT !.raw = [n \in 1..Len(x.raw) |->
                         x.raw[((n - 1) \div 2) * 2 + sel[((n - 1) % 2) + 1] + 1]]]

\* x * f with x of shape (s, H, D) and f of shape (s, 1, D2)
MulBroadcastOk(x, f) ==
    /\ Len(x.shape) = 3
    /\ x.shape[1] = f.shape[1]
    /\ Broadcastable(x.shape[3], f.shape[3])
    /\ f.shape[3] >= 1

MulBroadcast(x, f) ==
    LET H == x.shape[2]
        D == x.shape[3]
        D2 == f.shape[3]
        FAt(i, d) == f.raw[i * D2 + (IF D2 = 1 THEN 0 ELSE d) + 1]
    IN  [x EXCEPT !.raw = [n \in 1..Len(x.raw) |->
            x.raw[n] * FAt((n - 1) \div (H * D), (n - 1) % D)]]

AddT(a, b) == [a EXCEPT !.raw = [n \in 1..Len(a.raw) |-> a.raw[n] + b.raw[n]]]

\* slice(0, 2): the offsets the executed code selects inside each pair
PairSel == <<0, 1>>

RotaryOk(x, n_local_heads, hd, seqlen, freqs_cis) ==
    LET flat == CatFlat(freqs_cis, 1, 1, 1)
    IN  /\ ViewOk(flat, seqlen)
        /\ ReshapeOk(x, <<seqlen, n_local_heads, hd \div 2, 2>>)
        /\ MulBroadcastOk(reshape(x, <<seqlen, n_local_heads, hd>>),
                          View(flat, seqlen))

RotateOne(x, n_local_heads, hd, seqlen, freqs_cis) ==
    LET freqs_cis_l == View(CatFlat(freqs_cis, 1, 1, 1), seqlen)
        freqs_cis_r == View(CatFlat(freqs_cis, 2, -1, 1), seqlen)
        x_ == PairIndex(x, PairSel)
    IN  AddT(MulBroadcast(x, freqs_cis_l), MulBroadcast(x_, freqs_cis_r))

apply_rotary_emb(xq, xk, n_local_heads, hd, seqlen, freqs_cis) ==
    <<RotateOne(xq, n_local_heads, hd, seqlen, freqs_cis),
      RotateOne(xk, n_local_heads, hd, seqlen, freqs_cis)>>

\* ------------------------------------------------------------------ weights
\* a fixed integer weight matrix of the given shape (weights are loaded from a
\* checkpoint; any fixed values do)
Weight(seed, rows, cols) ==
    [o \in 1..rows |-> [i \in 1..cols |-> (seed + o * i + o + 2 * i) % 3]]

wq(l) == Weight(4 * l, n_heads * head_dim, dim)
wk(l) == Weight(4 * l + 1, n_heads * head_dim, dim)
wv(l) == Weight(4 * l + 2, n_heads * head_dim, dim)
wo(l) == Weight(4 * l + 3, dim, n_heads * head_dim)

\* FeedForward.__init__ called with hidden_dim = 4 * dim
hidden_dim ==
    multiple_of * ((((2 * (4 * dim)) \div 3) + multiple_of - 1) \div multiple_of)

w1(l) == Weight(l + 1, hidden_dim, dim)
w2(l) == Weight(l + 2, dim, hidden_dim)
w3(l) == Weight(l + 3, hidden_dim, dim)

output_w == Weight(1, vocab_size, dim)

\* nn.Embedding(vocab_size, dim) on a (1, seqlen) token array
tok_embeddings(toks) ==
    Plain(<<1, Len(toks), dim>>,
          Concat([n \in 1..Len(toks) |-> [d \in 1..dim |-> Wrap(toks[n] + d)]]))

\* rows of a tensor along its last axis
RowsOf(t) ==
    LET d == Last(t.shape)
    IN  [r \in 1..(Len(t.raw) \div d) |-> SubSeq(t.raw, (r - 1) * d + 1, r * d)]

\* RMSNorm with weight = ones; the positive factor rsqrt(mean(x^2) + eps) is
\* replaced by the positive integer 1 + (sum of squares mod Modulus)
RMSNorm(t) ==
    LET Scale(row) == 1 + Wrap(SumSeq([d \in 1..Len(row) |-> row[d] * row[d]]))
        rows == RowsOf(t)
    IN  [t EXCEPT !.raw = Concat([r \in 1..Len(rows) |->
            [d \in 1..Len(rows[r]) |-> Wrap(rows[r][d] * Scale(rows[r]))]])]

\* w2(silu(w1(x)) * w3(x)), silu replaced by the identity on integers
FeedForward(l, t) ==
    LET a == Linear(w1(l), t)
        b == Linear(w3(l), t)
        prod == [a EXCEPT !.raw = [n \in 1..Len(a.raw) |-> Wrap(a.raw[n] * b.raw[n])]]
    IN  Linear(w2(l), prod)

\* torch.triu(torch.full((1, 1, seqlen, seqlen), -inf), diagonal)
\* row i+1, column j+1 hold query position i and key position j
triu_full(seqlen, diagonal) ==
    [i1 \in 1..seqlen |-> [j1 \in 1..seqlen |->
        IF j1 - i1 >= diagonal THEN NegInf ELSE 0]]

\* ------------------------------------------------- attention, as functions
\* the vector of all heads at row i (0-based) of a (seqlen, H, D) tensor
Vec(t, i) ==
    SubSeq(t.raw, i * n_heads * head_dim + 1, (i + 1) * n_heads * head_dim)

\* [a:b] without the clamping to the axis length
SliceTarget_unclamped(a, b, n) == { p \in 0..(b - 1) : a <= p }

\* indices selected by [a:b] on an axis of length n
SliceTarget(a, b, n) == { p \in 0..(n - 1) : a <= p /\ p < b }

\* cache[:nb, a:b] = val, val of shape (seqlen, H, D) broadcast over the rows
SliceAssignOk(nb, a, b, val) ==
    LET L == SliceLen(a, b, max_seq_len)
    IN  val.shape[1] = L \/ val.shape[1] = 1

\* the assignment landing one position late
SliceAssign_shifted(cache, nb, a, b, val) ==
    LET R == SliceTarget(0, nb, max_batch_size)
        T == SliceTarget(a + 1, b + 1, max_seq_len)
        lo == Min(a + 1, max_seq_len)
        Src(p) == Vec(val, IF val.shape[1] = 1 THEN 0 ELSE p - lo)
    IN  [r \in DOMAIN cache |-> [p \in DOMAIN cache[0] |->
             IF r \in R /\ p \in T THEN Src(p) ELSE cache[r][p]]]

SliceAssign(cache, nb, a, b, val) ==
    LET R == SliceTarget(0, nb, max_batch_size)
        T == SliceTarget(a, b, max_seq_len)
        lo == Min(a, max_seq_len)
        Src(p) == Vec(val, IF val.shape[1] = 1 THEN 0 ELSE p - lo)
    IN  [r \in (DOMAIN cache) \cup R |->
          [p \in (DOMAIN cache[0]) \cup (IF r \in R THEN T ELSE {}) |->
             IF r \in R /\ p \in T THEN Src(p) ELSE cache[r][p]]]

\* the read returning the whole allocated cache
SliceRead_all(cache, nb, b) ==
    [r1 \in 1..Min(nb, max_batch_size) |->
        [j1 \in 1..max_seq_len |-> cache[r1 - 1][j1 - 1]]]

\* the read stopping one position early
SliceRead_short(cache, nb, b) ==
    [r1 \in 1..Min(nb, max_batch_size) |->
        [j1 \in 1..Min(b - 1, max_seq_len) |-> cache[r1 - 1][j1 - 1]]]

\* cache[:nb, :b] as rows of position vectors
SliceRead(cache, nb, b) ==
    [r1 \in 1..Min(nb, max_batch_size) |->
        [j1 \in 1..Min(b, max_seq_len) |-> cache[r1 - 1][j1 - 1]]]

AddMask(s, m) == IF s = NegInf \/ m = NegInf THEN NegInf ELSE s + m

\* softmax weight of one entry: zero exactly at -inf, positive otherwise
SoftmaxW(s) == IF s = NegInf THEN 0 ELSE 1 + Wrap(s)

\* number of columns of scores + mask
ScoreCols(K, m) == IF m = <<>> THEN K ELSE Max(K, Len(m[1]))

\* scores + mask broadcasts, and matmul(scores, values) has matching inner axes
ScoreOk(K, m) ==
    /\ m = <<>> \/ Broadcastable(K, Len(m[1]))
    /\ ScoreCols(K, m) = K

\* softmax(q k^T / sqrt(head_dim) + mask); the positive factor is dropped
AttnScores(q, ks, m) ==
    LET D == head_dim
        Q(i, hh, d) == q.raw[((i - 1) * n_heads + (hh - 1)) * D + d]
        Kk(b, j, hh, d) == ks[b][j][(hh - 1) * D + d]
        S(b, hh, i, j) == Wrap(SumSeq([d \in 1..D |-> Q(i, hh, d) * Kk(b, j, hh, d)]))
        M(i, j) == IF m = <<>> THEN 0 ELSE m[i][j]
    IN  [b \in 1..Len(ks) |-> [hh \in 1..n_heads |-> [i \in 1..q.shape[1] |->
           [j \in 1..Len(ks[b]) |-> SoftmaxW(AddMask(S(b, hh, i, j), M(i, j)))]]]]

\* matmul(scores, values).transpose(1, 2).contiguous().view(bsz, seqlen, -1)
\* the weights of a row are not normalised: the row total is added instead, so
\* that the output depends on it as the softmax output does
AttnOutput(sc, vs, n) ==
    LET D == head_dim
        O(b, i, hh, d) ==
            Wrap(SumSeq([j \in 1..Len(vs[b]) |->
                           sc[b][hh][i][j] * vs[b][j][(hh - 1) * D + d]])
                 + SumSeq(sc[b][hh][i]))
    IN  Plain(<<Len(vs), n, n_heads * D>>,
              Concat([b \in 1..Len(vs) |-> Concat([i \in 1..n |->
                 [c \in 1..(n_heads * D) |->
                    O(b, i, ((c - 1) \div D) + 1, ((c - 1) % D) + 1)]])]))

AddWrap(a, b) == [a EXCEPT !.raw = [n \in 1..Len(a.raw) |-> Wrap(a.raw[n] + b.raw[n])]]

\* TransformerBlock.forward given the attention's pre-projection output
BlockOut(l, hin, out) ==
    LET hh == AddWrap(hin, Linear(wo(l), out))
    IN  AddWrap(hh, FeedForward(l, RMSNorm(hh)))

\* self.output(self.norm(h)[:, -1, :])
Logits(hfin) ==
    LET rows == RowsOf(RMSNorm(hfin))
    IN  Linear(output_w, Plain(<<1, dim>>, rows[Len(rows)])).raw

\* ---------------------------------------------------------------- the state
None == [enc |-> FALSE, shape |-> <<0>>, raw |-> <<>>]

TokenSeqs ==
    { [n \in 1..len |-> (t + n - 1) % vocab_size] :
        t \in 0..(vocab_size - 1), len \in 1..MaxTokens }

FreqsTable == precompute_freqs_cis(dim \div n_heads, max_seq_len * 2)

ZeroCache ==
    [b \in 0..(max_batch_size - 1) |->
        [p \in 0..(max_seq_len - 1) |-> [d \in 1..(n_heads * head_dim) |-> 0]]]

\* ------------------------------------------------- the forward on no cache
\* the blocks l..n_layers applied to hcur when keys and values are exactly the
\* ones computed by the call itself
RECURSIVE RefLayers(_, _, _, _, _)
RefLayers(l, hcur, n, fc, m) ==
    IF l > n_layers THEN hcur
    ELSE LET xin == ckks_tensor(squeeze(RMSNorm(hcur)))
             q0 == reshape(encryptedLinearTransform(wq(l), xin), <<n, n_heads, head_dim>>)
             k0 == reshape(encryptedLinearTransform(wk(l), xin), <<n, n_heads, head_dim>>)
             v0 == reshape(encryptedLinearTransform(wv(l), xin), <<n, n_heads, head_dim>>)
             r == apply_rotary_emb(q0, k0, n_heads, head_dim, n, fc)
             q == plainToTorch(decrypt(r[1]))
             k == plainToTorch(decrypt(r[2]))
             v == plainToTorch(decrypt(v0))
             ks == <<[j \in 1..n |-> Vec(k, j - 1)]>>
             vs == <<[j \in 1..n |-> Vec(v, j - 1)]>>
             out == AttnOutput(AttnScores(q, ks, m), vs, n)
         IN  RefLayers(l + 1, BlockOut(l, hcur, out), n, fc, m)

RefLogits(toks) ==
    LET n == Len(toks)
    IN  Logits(RefLayers(1, tok_embeddings(toks), n, PySlice(FreqsTable, 0, n),
                         IF n > 1 THEN triu_full(n, 1) ELSE <<>>))

VARIABLES
    cache_k, cache_v,          \* per layer: Attention.cache_k / cache_v
    pc, layer,                 \* stage reached, and the block being run
    tokens, start_pos,         \* arguments of Transformer.forward
    h, freqs_cis, mask,        \* locals of Transformer.forward
    x, xq, xk, xv,             \* locals of Attention.forward
    keys, values, scores, output,
    result,                    \* outcome of the last forward call
    calls,                     \* number of forward calls started
    encrypts,                  \* encryptions of the input in this layer call
    pre_k, pre_v,              \* caches at entry of the current layer call
    wrote, readPos,            \* cells assigned / positions read by the call
    contig, nextPos, log,      \* per layer: history of the calls it received
    seen,                      \* logits of the first run from position 0
    ref,                       \* logits of each token sequence on no cache
    rot                        \* input and output of an isolated rotation

cacheVars == <<cache_k, cache_v>>
callVars == <<tokens, start_pos, h, freqs_cis, mask, calls>>
attnVars == <<x, xq, xk, xv, keys, values, scores, output>>
ghostVars == <<encrypts, pre_k, pre_v, wrote, readPos, contig, nextPos, log, seen>>
vars == <<cache_k, cache_v, pc, layer, tokens, start_pos, h, freqs_cis, mask,
          x, xq, xk, xv, keys, values, scores, output, result, calls,
          encrypts, pre_k, pre_v, wrote, readPos, contig, nextPos, log, seen,
          rot, ref>>

seqlen == Len(tokens)

NoResult == [kind |-> "none", at |-> "", logits |-> <<>>]
NoRot == [xq |-> None, xk |-> None, freqs_cis |-> <<>>, done |-> FALSE,
          oq |-> None, ok |-> None]

NoLog == [p \in 0..(max_seq_len - 1) |-> [n |-> 0, call |-> 0, k |-> <<>>, v |-> <<>>]]

MainInit ==
    /\ cache_k = [l \in 1..n_layers |-> ZeroCache]
    /\ cache_v = [l \in 1..n_layers |-> ZeroCache]
    /\ pc = "idle"
    /\ layer = 0
    /\ tokens = <<>>
    /\ start_pos = 0
    /\ h = None
    /\ freqs_cis = <<>>
    /\ mask = <<>>
    /\ x = None /\ xq = None /\ xk = None /\ xv = None
    /\ keys = <<>> /\ values = <<>> /\ scores = <<>> /\ output = None
    /\ result = NoResult
    /\ calls = 0
    /\ encrypts = 0
    /\ pre_k = [l \in 1..n_layers |-> ZeroCache]
    /\ pre_v = [l \in 1..n_layers |-> ZeroCache]
    /\ wrote = {}
    /\ readPos = {}
    /\ contig = [l \in 1..n_layers |-> TRUE]
    /\ nextPos = [l \in 1..n_layers |-> 0]
    /\ log = [l \in 1..n_layers |-> NoLog]
    /\ seen = [t \in TokenSeqs |-> [n |-> 0, logits |-> <<>>]]
    /\ ref = [t \in TokenSeqs |-> RefLogits(t)]

Init == MainInit /\ rot = NoRot

\* ------------------------------------------------------------------ actions
Raise(at) ==
    /\ pc' = "idle"
    /\ result' = [kind |-> "error", at |-> at, logits |-> <<>>]

\* bookkeeping when Attention.forward of block l is entered with (sp, n)
Enter(l, sp, n) ==
    /\ contig' = [contig EXCEPT ![l] = @ /\ sp = nextPos[l] /\ sp + n <= max_seq_len]
    /\ nextPos' = [nextPos EXCEPT ![l] = sp + n]
    /\ pre_k' = cache_k
    /\ pre_v' = cache_v
    /\ encrypts' = 0
    /\ wrote' = {}
    /\ readPos' = {}

\* Transformer.forward up to the first block
Begin(toks, sp) ==
    /\ pc = "idle"
    /\ calls < MaxCalls
    /\ calls' = calls + 1
    /\ tokens' = toks
    /\ start_pos' = sp
    /\ h' = tok_embeddings(toks)
    /\ freqs_cis' = PySlice(FreqsTable, sp, sp + Len(toks))
    /\ mask' = IF Len(toks) > 1 THEN triu_full(Len(toks), sp + 1) ELSE <<>>
    /\ layer' = 1
    /\ x' = RMSNorm(h')
    /\ xq' = None /\ xk' = None /\ xv' = None
    /\ keys' = <<>> /\ values' = <<>> /\ scores' = <<>> /\ output' = None
    /\ result' = NoResult
    /\ pc' = "enter"
    /\ Enter(1, sp, Len(toks))
    /\ UNCHANGED <<cacheVars, log, seen, rot, ref>>

Encrypt ==
    /\ pc = "enter"
    /\ x' = ckks_tensor(squeeze(x))
    /\ encrypts' = encrypts + 1
    /\ pc' = "encrypted"
    /\ UNCHANGED <<cacheVars, callVars, layer, xq, xk, xv, keys, values, scores,
                   output, result, pre_k, pre_v, wrote, readPos, contig, nextPos,
                   log, seen, rot, ref>>

ProjectQ ==
    /\ pc = "encrypted"
    /\ x.enc
    /\ xq' = encryptedLinearTransform(wq(layer), x)
    /\ pc' = "xq"
    /\ UNCHANGED <<cacheVars, callVars, layer, x, xk, xv, keys, values, scores,
                   output, result, ghostVars, rot, ref>>

ProjectK ==
    /\ pc = "xq"
    /\ x.enc
    /\ xk' = encryptedLinearTransform(wk(layer), x)
    /\ pc' = "xk"
    /\ UNCHANGED <<cacheVars, callVars, layer, x, xq, xv, keys, values, scores,
                   output, result, ghostVars, rot, ref>>

ProjectV ==
    /\ pc = "xk"
    /\ x.enc
    /\ xv' = encryptedLinearTransform(wv(layer), x)
    /\ pc' = "xv"
    /\ UNCHANGED <<cacheVars, callVars, layer, x, xq, xk, keys, values, scores,
                   output, result, ghostVars, rot, ref>>

Reshape ==
    /\ pc = "xv"
    /\ ReshapeOk(xq, <<seqlen, n_heads, head_dim>>)
    /\ xq' = reshape(xq, <<seqlen, n_heads, head_dim>>)
    /\ xk' = reshape(xk, <<seqlen, n_heads, head_dim>>)
    /\ xv' = reshape(xv, <<seqlen, n_heads, head_dim>>)
    /\ pc' = "reshaped"
    /\ UNCHANGED <<cacheVars, callVars, layer, x, keys, values, scores,
                   output, result, ghostVars, rot, ref>>

Rotate ==
    /\ pc = "reshaped"
    /\ IF RotaryOk(xq, n_heads, head_dim, seqlen, freqs_cis)
       THEN /\ \E r \in {apply_rotary_emb(xq, xk, n_heads, head_dim, seqlen, freqs_cis)} :
                 xq' = r[1] /\ xk' = r[2]
            /\ pc' = "rotated"
            /\ UNCHANGED result
       ELSE /\ Raise("rotate")
            /\ UNCHANGED <<xq, xk>>
    /\ UNCHANGED <<cacheVars, callVars, layer, x, xv, keys, values, scores,
                   output, ghostVars, rot, ref>>

\* the decrypt step taken before the rotation
Decrypt_early ==
    /\ pc = "reshaped"
    /\ xq.enc /\ xk.enc /\ xv.enc
    /\ xq' = plainToTorch(decrypt(xq))
    /\ xk' = plainToTorch(decrypt(xk))
    /\ xv' = plainToTorch(decrypt(xv))
    /\ pc' = "decrypted"
    /\ UNCHANGED <<cacheVars, callVars, layer, x, keys, values, scores,
                   output, result, ghostVars, rot, ref>>

Decrypt ==
    /\ pc = "rotated"
    /\ xq.enc /\ xk.enc /\ xv.enc
    /\ xq' = plainToTorch(decrypt(xq))
    /\ xk' = plainToTorch(decrypt(xk))
    /\ xv' = plainToTorch(decrypt(xv))
    /\ pc' = "decrypted"
    /\ UNCHANGED <<cacheVars, callVars, layer, x, keys, values, scores,
                   output, result, ghostVars, rot, ref>>

\* the entries of the history of block l added by a call covering [sp, sp+n)
Logged(l, sp, n) ==
    [p \in DOMAIN log[l] |->
        IF sp <= p /\ p < sp + n
        THEN [n |-> log[l][p].n + 1, call |-> calls,
              k |-> Vec(xk, p - sp), v |-> Vec(xv, p - sp)]
        ELSE log[l][p]]

CacheWrite ==
    /\ pc = "decrypted"
    /\ IF SliceAssignOk(bsz, start_pos, start_pos + seqlen, xk)
       THEN /\ cache_k' = [cache_k EXCEPT ![layer] =
                   SliceAssign(@, bsz, start_pos, start_pos + seqlen, xk)]
            /\ cache_v' = [cache_v EXCEPT ![layer] =
                   SliceAssign(@, bsz, start_pos, start_pos + seqlen, xv)]
            /\ wrote' = SliceTarget(0, bsz, max_batch_size)
                          \X SliceTarget(start_pos, start_pos + seqlen, max_seq_len)
            /\ log' = [log EXCEPT ![layer] = Logged(layer, start_pos, seqlen)]
            /\ pc' = "written"
            /\ UNCHANGED result
       ELSE /\ Raise("cache_write")
            /\ UNCHANGED <<cacheVars, wrote, log>>
    /\ UNCHANGED <<callVars, layer, attnVars, encrypts, pre_k, pre_v, readPos,
                   contig, nextPos, seen, rot, ref>>

CacheRead ==
    /\ pc = "written"
    /\ keys' = SliceRead(cache_k[layer], bsz, start_pos + seqlen)
    /\ values' = SliceRead(cache_v[layer], bsz, start_pos + seqlen)
    /\ readPos' = SliceTarget(0, start_pos + seqlen, max_seq_len)
    /\ pc' = "read"
    /\ UNCHANGED <<cacheVars, callVars, layer, x, xq, xk, xv, scores, output,
                   result, encrypts, pre_k, pre_v, wrote, contig, nextPos, log,
                   seen, rot, ref>>

Score ==
    /\ pc = "read"
    /\ IF ScoreOk(Len(keys[1]), mask)
       THEN /\ scores' = AttnScores(xq, keys, mask)
            /\ output' = AttnOutput(scores', values, seqlen)
            /\ pc' = "scored"
            /\ UNCHANGED result
       ELSE /\ Raise("score")
            /\ UNCHANGED <<scores, output>>
    /\ UNCHANGED <<cacheVars, callVars, layer, x, xq, xk, xv, keys, values,
                   ghostVars, rot, ref>>

\* the rest of the block, then the next block or the end of the loop
Combine ==
    /\ pc = "scored"
    /\ h' = BlockOut(layer, h, output)
    /\ IF layer < n_layers
       THEN /\ layer' = layer + 1
            /\ x' = RMSNorm(h')
            /\ pc' = "enter"
            /\ Enter(layer + 1, start_pos, seqlen)
       ELSE /\ pc' = "final"
            /\ UNCHANGED <<layer, x, encrypts, pre_k, pre_v, wrote, readPos,
                           contig, nextPos>>
    /\ UNCHANGED <<cacheVars, tokens, start_pos, freqs_cis, mask, calls, xq, xk,
                   xv, keys, values, scores, output, result, log, seen, rot, ref>>

Finish ==
    /\ pc = "final"
    /\ result' = [kind |-> "ok", at |-> "", logits |-> Logits(h)]
    /\ seen' = IF start_pos = 0
               THEN [seen EXCEPT ![tokens] =
                        [n |-> @.n + 1,
                         logits |-> IF @.n = 0 THEN result'.logits ELSE @.logits]]
               ELSE seen
    /\ pc' = "idle"
    /\ UNCHANGED <<cacheVars, callVars, layer, attnVars, encrypts, pre_k, pre_v,
                   wrote, readPos, contig, nextPos, log, rot, ref>>

Next ==
    \/ \E toks \in TokenSeqs, sp \in 0..MaxStartPos : Begin(toks, sp)
    \/ Encrypt
    \/ ProjectQ
    \/ ProjectK
    \/ ProjectV
    \/ Reshape
    \/ Rotate
    \/ Decrypt
    \/ CacheWrite
    \/ CacheRead
    \/ Score
    \/ Combine
    \/ Finish

Spec == Init /\ [][Next]_vars

\* ------------------------------------------- apply_rotary_emb in isolation
UnitSet == { Polar(q) : q \in 0..3 }
RotVals == -1..2

\* a (RotSeqLen, RotHeads, RotHeadDim) ciphertext built from one pair (a, b)
RotInput(a, b) ==
    ckks_tensor(Plain(<<RotSeqLen, RotHeads, RotHeadDim>>,
        [n \in 1..(RotSeqLen * RotHeads * RotHeadDim) |->
            (IF n % 2 = 1 THEN a ELSE b) * (1 + (((n - 1) \div 2) % 2))]))

InitRot ==
    /\ MainInit
    /\ \E a \in RotVals, b \in RotVals,
          fc \in [1..RotSeqLen -> [1..RotPairs -> UnitSet]] :
         rot = [NoRot EXCEPT !.xq = RotInput(a, b), !.xk = RotInput(b, -a),
                             !.freqs_cis = fc]

RotApply ==
    /\ ~rot.done
    /\ RotaryOk(rot.xq, RotHeads, RotHeadDim, RotSeqLen, rot.freqs_cis)
    /\ rot' = [rot EXCEPT
         !.done = TRUE,
         !.oq = apply_rotary_emb(rot.xq, rot.xk, RotHeads, RotHeadDim,
                                 RotSeqLen, rot.freqs_cis)[1],
         !.ok = apply_rotary_emb(rot.xq, rot.xk, RotHeads, RotHeadDim,
                                 RotSeqLen, rot.freqs_cis)[2]]
    /\ UNCHANGED <<cacheVars, pc, layer, callVars, attnVars, result, ghostVars, ref>>

NextRot == RotApply

SpecRot == InitRot /\ [][NextRot]_vars

\* ------------------------------------------------------------------- claims
AfterWrite ==
    \/ pc \in {"written", "read", "scored", "final"}
    \/ pc = "idle" /\ result.kind = "ok"
    \/ pc = "idle" /\ result.kind = "error" /\ result.at = "score"

InRange(b, p) == b < bsz /\ start_pos <= p /\ p < start_pos + seqlen

\* C1: a forward call with start_pos + seqlen > max_seq_len ends in an error
\* and leaves both caches of the layer as they were; it never returns logits.
C1_OverCapacityRaises ==
    (pc = "idle" /\ calls > 0 /\ start_pos + seqlen > max_seq_len) =>
        /\ result.kind = "error"
        /\ cache_k[layer] = pre_k[layer]
        /\ cache_v[layer] = pre_v[layer]

\* C2: a layer call changes the caches only at rows below bsz and positions
\* start_pos <= p < start_pos + seqlen, where it stores the key and value it
\* computed; every other cell keeps its value from before the call.  After
\* forward(0, 3) then forward(3, 1), positions 0..2 hold the first call's
\* values and position 3 the second call's.
C2_WriteFrame ==
    /\ layer >= 1 =>
         \A b \in DOMAIN cache_k[layer] : \A p \in DOMAIN cache_k[layer][b] :
            IF AfterWrite /\ InRange(b, p)
            THEN /\ cache_k[layer][b][p] = Vec(xk, p - start_pos)
                 /\ cache_v[layer][b][p] = Vec(xv, p - start_pos)
            ELSE /\ cache_k[layer][b][p] = pre_k[layer][b][p]
                 /\ cache_v[layer][b][p] = pre_v[layer][b][p]
    /\ \A l \in 1..n_layers :
         (/\ pc = "idle" /\ calls = 2 /\ start_pos = 3 /\ seqlen = 1
          /\ \A p \in 0..2 : log[l][p].call = 1 /\ log[l][p].n = 1
          /\ log[l][3].call = 2 /\ log[l][3].n = 1)
         => \A p \in 0..3 : /\ cache_k[l][0][p] = log[l][p].k
                            /\ cache_v[l][0][p] = log[l][p].v

C2_Witness ==
    /\ pc = "idle" /\ result.kind = "ok" /\ calls = 2
    /\ start_pos = 3 /\ seqlen = 1
    /\ \A l \in 1..n_layers :
         /\ \A p \in 0..2 : log[l][p].call = 1 /\ log[l][p].n = 1
         /\ log[l][3].call = 2
    /\ cache_k[layer][0][3] = Vec(xk, 0)
    /\ cache_k[layer][0][3] # pre_k[layer][0][3]

\* C3: when seqlen > 1, the mask added to the scores is -inf at query i and
\* key j if j > start_pos + i and 0 otherwise, for every query position i and
\* every key position j read from the cache.
C3_MaskCausal ==
    (pc = "read" /\ seqlen > 1) =>
        \A i \in 0..(seqlen - 1) : \A j \in 0..(Len(keys[1]) - 1) :
            /\ j + 1 \in DOMAIN mask[i + 1]
            /\ mask[i + 1][j + 1] = (IF j > start_pos + i THEN NegInf ELSE 0)

\* element (p, hh, d) of a (RotSeqLen, RotHeads, RotHeadDim) tensor, 0-based
RotAt(t, p, hh, d) == t.raw[(p * RotHeads + hh) * RotHeadDim + d + 1]

RotatedPair(tin, tout, p, hh, k) ==
    LET a == RotAt(tin, p, hh, 2 * k)
        b == RotAt(tin, p, hh, 2 * k + 1)
        c == rot.freqs_cis[p + 1][k + 1][1]
        sn == rot.freqs_cis[p + 1][k + 1][2]
    IN  /\ RotAt(tout, p, hh, 2 * k) = a * c - b * sn
        /\ RotAt(tout, p, hh, 2 * k + 1) = a * sn + b * c

\* C4: apply_rotary_emb maps each adjacent pair (a, b) of the query and of the
\* key, with (c, s) the table entry of its position and pair index, to
\* (a*c - b*s, a*s + b*c).
C4_PureRotation ==
    rot.done =>
        \A p \in 0..(RotSeqLen - 1) : \A hh \in 0..(RotHeads - 1) :
            \A k \in 0..(RotPairs - 1) :
                /\ RotatedPair(rot.xq, rot.oq, p, hh, k)
                /\ RotatedPair(rot.xk, rot.ok, p, hh, k)

\* C5: a call reads no cache position at or beyond start_pos + seqlen, no
\* write targets a cell outside the allocated rows and positions, and the
\* cache arrays keep the shape (max_batch_size, max_seq_len, heads * head_dim).
C5_CacheBounds ==
    /\ \A p \in readPos : p < start_pos + seqlen
    /\ pc = "read" => Len(keys[1]) <= start_pos + seqlen
                      /\ Len(values[1]) <= start_pos + seqlen
    /\ wrote \subseteq (0..(max_batch_size - 1)) \X (0..(max_seq_len - 1))
    /\ \A l \in 1..n_layers : \A c \in {cache_k[l], cache_v[l]} :
         /\ DOMAIN c = 0..(max_batch_size - 1)
         /\ \A b \in DOMAIN c :
              /\ DOMAIN c[b] = 0..(max_seq_len - 1)
              /\ \A p \in DOMAIN c[b] : Len(c[b][p]) = n_heads * head_dim

C5_Witness ==
    /\ pc = "read"
    /\ start_pos + seqlen > max_seq_len
    /\ wrote = {}
    /\ readPos = 0..(max_seq_len - 1)

\* C6: in a layer call the input is encrypted exactly once; the three bridge
\* calls take that ciphertext and return ciphertexts; from the encryption to
\* the decrypt step x, xq, xk and xv are ciphertexts.
C6_EncryptedBoundary ==
    /\ pc \in {"encrypted", "xq", "xk", "xv", "reshaped", "rotated"} => x.enc
    /\ pc \in {"xq", "xk", "xv", "reshaped", "rotated"} => xq.enc
    /\ pc \in {"xk", "xv", "reshaped", "rotated"} => xk.enc
    /\ pc \in {"xv", "reshaped", "rotated"} => xv.enc
    /\ pc \in {"encrypted", "xq", "xk", "xv", "reshaped", "rotated", "decrypted",
               "written", "read", "scored", "final"} => encrypts = 1
    /\ pc = "enter" => encrypts = 0 /\ ~x.enc
    /\ pc = "xv" =>
         /\ plainToTorch(decrypt(xq)) = Linear(wq(layer), plainToTorch(decrypt(x)))
         /\ plainToTorch(decrypt(xk)) = Linear(wk(layer), plainToTorch(decrypt(x)))
         /\ plainToTorch(decrypt(xv)) = Linear(wv(layer), plainToTorch(decrypt(x)))

C6_Witness ==
    /\ pc = "rotated" /\ layer = n_layers
    /\ x.enc /\ xq.enc /\ xk.enc /\ xv.enc
    /\ encrypts = 1

\* C7: a completed forward run from start_pos = 0 returns the logits of the
\* same tokens computed on no cache at all, and the logits of every earlier
\* run from position 0 on the same tokens, whatever earlier calls left behind.
C7_RunsAgree ==
    (pc = "idle" /\ result.kind = "ok" /\ start_pos = 0) =>
        /\ result.logits = ref[tokens]
        /\ result.logits = seen[tokens].logits

C7_Witness ==
    /\ pc = "idle" /\ result.kind = "ok" /\ start_pos = 0
    /\ seen[tokens].n = 2

\* C8 (as stated): the query and key are decrypted before the rotation, so
\* the rotation only ever acts on plaintext arrays.
C8_DecryptBeforeRotate ==
    [][(pc = "reshaped" /\ pc' = "rotated") => (~xq.enc /\ ~xk.enc)]_vars

\* C8 (amended): the rotation acts on the query and key ciphertexts and
\* returns ciphertexts; the decrypt step comes right after the rotation.
C8_RotateThenDecrypt ==
    [][/\ (pc = "reshaped" /\ pc' = "rotated") =>
            (xq.enc /\ xk.enc /\ xq'.enc /\ xk'.enc)
       /\ (pc' = "decrypted" /\ pc # "decrypted") =>
            (pc = "rotated" /\ ~xq'.enc /\ ~xk'.enc /\ ~xv'.enc)
       /\ (pc' = "rotated" /\ pc # "rotated") => pc = "reshaped"]_vars

C8_Witness ==
    /\ pc = "decrypted"
    /\ ~xq.enc /\ ~xk.enc /\ ~xv.enc
    /\ seqlen > 1 /\ start_pos > 0

\* C9: for seqlen > 1 and start_pos + seqlen <= max_seq_len the mask has one
\* column per key position read from the cache, and the call does not end in
\* a shape error.
C9_MaskColumns ==
    (calls > 0 /\ seqlen > 1 /\ start_pos + seqlen <= max_seq_len) =>
        /\ pc = "read" => Len(mask[1]) = Len(keys[1])
        /\ pc = "idle" => result.kind = "ok"

\* C10: while the calls received by a layer form one contiguous sequence from
\* position 0 within capacity, every position of the prefix read back holds
\* the key and value written by the one call that covered it.
C10_ContiguousPrefix ==
    (pc = "read" /\ contig[layer]) =>
        /\ Len(keys[1]) = start_pos + seqlen
        /\ Len(values[1]) = start_pos + seqlen
        /\ \A p \in 0..(start_pos + seqlen - 1) :
             /\ log[layer][p].n = 1
             /\ keys[1][p + 1] = log[layer][p].k
             /\ values[1][p + 1] = log[layer][p].v

C10_Witness ==
    /\ pc = "read" /\ contig[layer] /\ layer = n_layers
    /\ start_pos > 0
    /\ log[layer][0].call = 1 /\ log[layer][start_pos].call = 2

====
